---- MODULE Spec2Model ----
(***************************************************************************)
(* A model of go-sage/synctools: the waypoint package (a Waypoint meters   *)
(* how many Workers are Active at once) and the pipeline package built on  *)
(* it.  Every step that takes the Waypoint's mutex is atomic with respect  *)
(* to the other steps that take it; the steps that do not take it (Resize, *)
(* the cancelation watcher of Wait, a Context being canceled) interleave   *)
(* with the critical section of Wait at the places where they can observe  *)
(* or change what it reads.                                                *)
(***************************************************************************)
EXTENDS Integers, Sequences, FiniteSets, TLC

\* ------------------------------------------------------------------ bounds
MaxCallers == 2     \* goroutines that call Wait, each once
MaxCap == 2         \* capacities are drawn from 0..MaxCap
MaxResizers == 1    \* goroutines that call Resize
MaxDoneCalls == 2   \* Waypoint.Done calls
MaxStages == 1      \* stages registered with Add
MaxItems == 2       \* items Feed sends
MaxNames == 2       \* names given to Add and Pipeline.Resize
MaxVal == 1         \* values sent on a channel are 0..MaxVal of some type

Callers == 1..MaxCallers
Resizers == 1..MaxResizers
Caps == 0..MaxCap
Ids == 1..MaxCallers
Stages == 1..MaxStages
Items == 1..MaxItems
Chans == 0..MaxStages   \* channel 0 is Feed's, channel s the output of stage s
Names == 1..MaxNames

VARIABLES
    wp,          \* the Waypoint: its fields, its mutex and its cond's notify list
    workers,     \* Worker.State of every Worker created so far, by ID
    pc,          \* where each caller is in Wait / Worker.Done
    wid,         \* the ID of the Worker each caller's Wait created
    ctxDone,     \* whether each caller's Context is canceled
    watch,       \* the watcher goroutine of each caller's Wait
    rpc,         \* where each resizer is in Resize
    rnew,        \* Resize's newcap
    rold,        \* Resize's oldcap
    rret,        \* what each resizer's last Resize returned
    doneCalls,   \* Waypoint.Done calls made
    metrics,     \* what the last call of Metrics returned
    rcap,        \* history: the capacity when each Resize in progress was called
    overlap,     \* history: another Resize was in progress during this one
    everLowered, \* history: some Resize has written a lower capacity
    raised       \* history: a Resize raised the capacity and nothing was asked since

wvars == <<wp, workers, pc, wid, ctxDone, watch,
           rpc, rnew, rold, rret, rcap, overlap, doneCalls, metrics,
           everLowered, raised>>

\* A run of a Pipeline.
VARIABLES
    mpc,         \* where the caller of Run is
    started,     \* p.started
    callerDone,  \* whether the Context given to Run is canceled
    runCancel,   \* whether the Context run derived for its Group is canceled
    groupErr,    \* the first error reported to run's Group
    runErr,      \* what Run returned
    feed,        \* the goroutine of feedFunc
    stages,      \* p.stages, and the goroutine of each stage's runner
    sub,         \* the goroutine started for each item a stage admitted
    closes,      \* close() calls made on each channel
    coll,        \* the goroutine of collectFunc
    collected,   \* what Collect received, in order of arrival
    panicked,    \* a goroutine panicked: the process is gone
    firstFail    \* history: the first error a goroutine of the run came to return

pvars == <<mpc, started, callerDone, runCancel, groupErr, runErr, feed,
           stages, sub, closes, coll, collected, panicked, firstFail>>

\* The calls of Add and Pipeline.Resize.
VARIABLES
    byname,      \* p.byname: the index in p.stages of each registered name
    last         \* the last call of Add or Pipeline.Resize, and what it returned

\* The calls of Recv.
VARIABLES
    ch,          \* the channel given to Recv, and the value a sender offers on it
    chCtx,       \* whether the Context given to Recv is canceled
    recv         \* the last call of Recv: its type T, val and what it returned

avars == <<byname, last, ch, chCtx, recv>>

vars == <<wvars, pvars, avars>>

Range(s) == {s[i] : i \in DOMAIN s}

\* ---------------------------------------------------------------- Waypoint
\* New: a Waypoint of the given capacity.  lock is the holder of the embedded
\* mutex (0: unlocked), notify the goroutines parked in cond.Wait, oldest
\* first; onceDone is the sync.Once, doneCloses the close(w.done) calls made.
New(capacity) ==
    [capacity |-> capacity, idSeq |-> 0, numWaiting |-> 0, numFinished |-> 0,
     active |-> {}, closed |-> FALSE, onceDone |-> FALSE, doneCloses |-> 0,
     notify |-> <<>>, lock |-> 0]

\* sync.Cond: Signal wakes the goroutine that has waited longest, if any;
\* Broadcast wakes them all.
Signal(w) == IF w.notify = <<>> THEN w ELSE [w EXCEPT !.notify = Tail(@)]

Broadcast(w) == [w EXCEPT !.notify = <<>>]

\* cond.Wait up to its parking: the caller joins the notify list and unlocks.
CondWaitPark(w, c) == [w EXCEPT !.notify = Append(@, c), !.lock = 0]

\* The loop condition of Wait with > for >=: admits one Worker too many.
AtCapacityOffByOne(w) == Cardinality(w.active) > w.capacity

\* The loop condition of Wait.
AtCapacity(w) == Cardinality(w.active) >= w.capacity

\* _next that numbers the new Worker after the Active ones.
NextAfterActive_(w) == [w EXCEPT !.idSeq = Cardinality(w.active) + 1]

\* _next: the id sequence advances; the new Worker is Waiting.
Next_(w) == [w EXCEPT !.idSeq = @ + 1]

\* _start that leaves the Worker out of the active set.
StartUncounted_(w, id) == w

\* _start: the Worker joins the active set.
Start_(w, id) == [w EXCEPT !.active = @ \cup {id}]

\* _stop without the sync.Once: close(w.done) on every call.
StopNoOnce_(w) ==
    IF w.closed THEN [w EXCEPT !.onceDone = TRUE, !.doneCloses = @ + 1] ELSE w

\* _stop: close(w.done), once, if the Waypoint is closed.
Stop_(w) ==
    IF w.closed /\ ~w.onceDone
    THEN [w EXCEPT !.onceDone = TRUE, !.doneCloses = @ + 1]
    ELSE w

\* _removeWorker without the delete.
RemoveWorkerKeeping_(w, id) == IF w.active = {} THEN Stop_(w) ELSE w

\* _removeWorker
RemoveWorker_(w, id) ==
    LET w1 == [w EXCEPT !.active = @ \ {id}]
    IN  IF w1.active = {} THEN Stop_(w1) ELSE w1

\* Worker.Done without numFinished++.
WorkerDoneOpUncounted(w, id) == RemoveWorker_(Signal(w), id)

\* Worker.Done, between Lock and Unlock.
WorkerDoneOp(w, id) ==
    RemoveWorker_(Signal([w EXCEPT !.numFinished = @ + 1]), id)

\* Waypoint.Done, between Lock and Unlock.
DoneOp(w) == Stop_([w EXCEPT !.closed = TRUE])

\* Resize: newcap < 0 || w.closed
ResizeRejectsOpen(w, newcap) == newcap < 0

ResizeRejects(w, newcap) == newcap < 0 \/ w.closed

\* Resize: w.capacity = newcap
ResizeStoreEvicting(w, newcap) ==
    [w EXCEPT !.capacity = newcap,
              !.active = IF Cardinality(@) > newcap THEN {} ELSE @]

ResizeStore(w, newcap) == [w EXCEPT !.capacity = newcap]

\* Resize: return oldcap
ResizeReturnNew(oldcap, newcap) == newcap

ResizeReturn(oldcap, newcap) == oldcap

\* Metrics{}, the value a Metrics variable has before any call.
NoMetrics == [Capacity |-> 0, Waiting |-> 0, Active |-> 0, Finished |-> 0]

\* Metrics, between RLock and RUnlock (the times are left out).
MetricsOf(w) ==
    [Capacity |-> w.capacity, Waiting |-> w.numWaiting,
     Active |-> Cardinality(w.active), Finished |-> w.numFinished]

\* The deferred calls of Wait without numWaiting--.
WaitDeferredKeeping(w) == [w EXCEPT !.lock = 0]

\* The deferred calls of Wait: numWaiting--, Unlock.
WaitDeferred(w) == [w EXCEPT !.numWaiting = @ - 1, !.lock = 0]

\* ---------------------------------------------------------------- Pipeline
\* The errors a task of a run returns: nil, ctx.Err() of a canceled Context,
\* and the error of a failing StageFunc.
NoErr == "nil"

Canceled == "context canceled"

ErrE == "E"

\* errgroup.Group: the first non-nil error a function of the group returns is
\* the group's error.
FirstErr(old, err) == IF old = NoErr THEN err ELSE old

\* The StageFunc of each stage; stage 1 is the one of the package's test.
StageFunc(s, x) == IF s = 1 THEN x + 1 ELSE 2 * x

\* The StageFuncs of stages 1..s applied in the order of registration.
RECURSIVE Through(_, _)
Through(s, x) == IF s = 0 THEN x ELSE StageFunc(s, Through(s - 1, x))

\* The Context of run's Group is derived from the caller's; the Context of a
\* runner's Group is derived from that one.
RunCtxDone == callerDone \/ runCancel

StageCtxDone(s) == RunCtxDone \/ stages[s].egCancel

\* Add: a stage of the given name and capacity.  waypt is the Waypoint its
\* runner makes, pc the runner's position, in and wid the item it has received and
\* the Worker it waits for, armed/stale/fire the watcher goroutines of its
\* Wait calls (of the call in progress and not past its select; of a call
\* that returned and not past its select; past the select, about to
\* Broadcast), egErr and egCancel the runner's Group, ret what runner returns.
NewStage(name, capacity) ==
    [name |-> name, capacity |-> capacity, waypt |-> New(capacity), pc |-> "idle",
     in |-> [orig |-> 0, val |-> 0], wid |-> 0,
     armed |-> FALSE, stale |-> 0, fire |-> 0,
     egErr |-> NoErr, egCancel |-> FALSE, ret |-> NoErr]

\* The goroutine of feedFunc.  closer tells the two producers apart: one that
\* leaves closing the channel to the Pipeline, as Interface asks (FALSE), and
\* the Feed of the package's tests, which begins with defer close(ch) (TRUE).
NewFeed(closer) == [pc |-> "idle", next |-> 1, err |-> NoErr, closer |-> closer]

NoSub == [pc |-> "none", orig |-> 0, val |-> 0, wid |-> 0, err |-> NoErr]

PRest ==
    /\ mpc = "new"
    /\ started = FALSE
    /\ callerDone = FALSE
    /\ runCancel = FALSE
    /\ groupErr = NoErr
    /\ runErr = NoErr
    /\ feed = NewFeed(FALSE)
    /\ sub = [s \in Stages |-> [i \in Items |-> NoSub]]
    /\ closes = [k \in Chans |-> 0]
    /\ coll = [pc |-> "idle", err |-> NoErr]
    /\ collected = <<>>
    /\ panicked = FALSE
    /\ firstFail = NoErr

\* No call of Add or Pipeline.Resize has been made beyond the Add calls that
\* registered the stages, stage s under the name s.
NoCall == [op |-> "none", name |-> 0, arg |-> 0, ret |-> 0, err |-> NoErr]

\* The dynamic types of the values sent, and the types Recv is called with.
Types == {"int", "string", "record"}

RecvTypes == Types \cup {"any"}

\* A nil interface value, and the values of each dynamic type (v = 0 is the
\* type's zero value).
Nil == [type |-> "nil", v |-> 0]

Vals == {[type |-> t, v |-> v] : t \in Types, v \in 0..MaxVal} \cup {Nil}

\* No sender is waiting on the channel.
NoVal == [type |-> "none", v |-> 0]

\* var out T
Zero(T) == IF T = "any" THEN Nil ELSE [type |-> T, v |-> 0]

\* out, ok = val.(T)
Converts(val, T) == val /= Nil /\ (T = "any" \/ val.type = T)

\* Recv that answers a value of another type like a closed channel.
RecvReturnChecked(T, val, ok) ==
    IF ok /\ Converts(val, T)
    THEN [out |-> val, ok |-> TRUE, err |-> NoErr]
    ELSE [out |-> Zero(T), ok |-> FALSE, err |-> NoErr]

\* Recv after its select took val, ok = <-ch.
RecvReturn(T, val, ok) ==
    IF ~ok THEN [out |-> Zero(T), ok |-> FALSE, err |-> NoErr]
    ELSE IF Converts(val, T) THEN [out |-> val, ok |-> TRUE, err |-> NoErr]
    ELSE [out |-> Zero(T), ok |-> TRUE, err |-> NoErr]

NoRecv == [T |-> "none", val |-> NoVal, out |-> NoVal, ok |-> FALSE, err |-> NoErr]

\* An open channel nobody sends on, a live Context, no call of Recv.
RecvIdle ==
    /\ ch = [closed |-> FALSE, val |-> NoVal]
    /\ chCtx = FALSE
    /\ recv = NoRecv

PNamed == byname = [s \in Stages |-> s] /\ last = NoCall /\ RecvIdle

\* A Pipeline whose stages were registered with any capacities, before Run.
PInit ==
    /\ \E caps \in [Stages -> Caps] :
          stages = [s \in Stages |-> NewStage(s, caps[s])]
    /\ PRest
    /\ PNamed

\* ------------------------------------------------------------------- Init
WInit ==
    /\ wp \in {New(c) : c \in Caps}
    /\ workers = [i \in Ids |-> "None"]
    /\ pc = [c \in Callers |-> "idle"]
    /\ wid = [c \in Callers |-> 0]
    /\ ctxDone = [c \in Callers |-> FALSE]
    /\ watch = [c \in Callers |-> "none"]
    /\ rpc = [r \in Resizers |-> "idle"]
    /\ rnew = [r \in Resizers |-> 0]
    /\ rold = [r \in Resizers |-> 0]
    /\ rret = [r \in Resizers |-> 0]
    /\ rcap = [r \in Resizers |-> 0]
    /\ overlap = [r \in Resizers |-> FALSE]
    /\ doneCalls = 0
    /\ metrics = NoMetrics
    /\ everLowered = FALSE
    /\ raised = FALSE

\* A Pipeline nobody runs, beside the Waypoint.
PIdle == stages = [s \in Stages |-> NewStage(s, 0)] /\ PRest /\ PNamed

Init == WInit /\ PIdle

\* ------------------------------------------------------------------- Wait
\* Wait is called: the watcher goroutine is started, the caller goes for the
\* lock.
CallWait(c) ==
    /\ pc[c] = "idle"
    /\ pc' = [pc EXCEPT ![c] = "lock"]
    /\ watch' = [watch EXCEPT ![c] = "armed"]
    /\ UNCHANGED <<pvars, avars, metrics, rcap, overlap, wp, workers, wid, ctxDone,
                   rpc, rnew, rold, rret, doneCalls, everLowered, raised>>

\* Lock; numWaiting++; a := _next(); the loop condition is evaluated.
WaitEnter(c) ==
    /\ pc[c] = "lock"
    /\ wp.lock = 0
    /\ LET w1 == Next_([wp EXCEPT !.lock = c, !.numWaiting = @ + 1])
       IN  /\ wp' = w1
           /\ wid' = [wid EXCEPT ![c] = w1.idSeq]
           /\ workers' = [workers EXCEPT ![w1.idSeq] = "Waiting"]
           /\ pc' = [pc EXCEPT ![c] = IF AtCapacity(w1) THEN "condwait" ELSE "start"]
    /\ UNCHANGED <<pvars, avars, metrics, rcap, overlap, ctxDone, watch,
                   rpc, rnew, rold, rret, doneCalls, everLowered, raised>>

\* cond.Wait(): the caller parks.
WaitCondWait(c) ==
    /\ pc[c] = "condwait"
    /\ wp' = CondWaitPark(wp, c)
    /\ pc' = [pc EXCEPT ![c] = "sleep"]
    /\ UNCHANGED <<pvars, avars, metrics, rcap, overlap, workers, wid, ctxDone, watch,
                   rpc, rnew, rold, rret, doneCalls, everLowered, raised>>

\* defer close(done): a watcher that has not selected yet finds done closed.
CloseDone(wt) == IF wt = "armed" THEN "stale" ELSE wt

\* cond.Wait() returns with the lock held; the select on ctx.Done() either
\* returns ctx.Err() or continues to the loop condition.
WaitRecheck(c) ==
    /\ pc[c] = "sleep"
    /\ c \notin Range(wp.notify)
    /\ wp.lock = 0
    /\ IF ctxDone[c]
       THEN /\ wp' = WaitDeferred(wp)
            /\ pc' = [pc EXCEPT ![c] = "failed"]
            /\ watch' = [watch EXCEPT ![c] = CloseDone(@)]
       ELSE /\ wp' = [wp EXCEPT !.lock = c]
            /\ pc' = [pc EXCEPT ![c] = IF AtCapacity(wp) THEN "condwait" ELSE "start"]
            /\ UNCHANGED watch
    /\ UNCHANGED <<pvars, avars, metrics, rcap, overlap, workers, wid, ctxDone,
                   rpc, rnew, rold, rret, doneCalls, everLowered, raised>>

\* return a._start(), nil
WaitStart(c) ==
    /\ pc[c] = "start"
    /\ wp' = WaitDeferred(Start_(wp, wid[c]))
    /\ workers' = [workers EXCEPT ![wid[c]] = "Active"]
    /\ pc' = [pc EXCEPT ![c] = "active"]
    /\ watch' = [watch EXCEPT ![c] = CloseDone(@)]
    /\ UNCHANGED <<pvars, avars, metrics, rcap, overlap, wid, ctxDone,
                   rpc, rnew, rold, rret, doneCalls, everLowered, raised>>

\* ---------------------------------------------------------------- watcher
\* The watcher's select takes ctx.Done(): the only case ready while Wait is
\* in progress, one of two once Wait has returned.
WatcherSelectCtx(c) ==
    /\ watch[c] \in {"armed", "stale"}
    /\ ctxDone[c]
    /\ watch' = [watch EXCEPT ![c] = "fire"]
    /\ UNCHANGED <<pvars, avars, metrics, rcap, overlap, wp, workers, pc, wid, ctxDone,
                   rpc, rnew, rold, rret, doneCalls, everLowered, raised>>

\* The watcher's select takes done, closed when Wait returned.
WatcherSelectDone(c) ==
    /\ watch[c] = "stale"
    /\ watch' = [watch EXCEPT ![c] = "none"]
    /\ UNCHANGED <<pvars, avars, metrics, rcap, overlap, wp, workers, pc, wid, ctxDone,
                   rpc, rnew, rold, rret, doneCalls, everLowered, raised>>

\* w.cond.Broadcast()
WatcherFire(c) ==
    /\ watch[c] = "fire"
    /\ wp' = Broadcast(wp)
    /\ watch' = [watch EXCEPT ![c] = "none"]
    /\ UNCHANGED <<pvars, avars, metrics, rcap, overlap, workers, pc, wid, ctxDone,
                   rpc, rnew, rold, rret, doneCalls, everLowered, raised>>

\* The caller's Context is canceled.
Cancel(c) ==
    /\ ~ctxDone[c]
    /\ ctxDone' = [ctxDone EXCEPT ![c] = TRUE]
    /\ raised' = FALSE
    /\ UNCHANGED <<pvars, avars, metrics, rcap, overlap, wp, workers, pc, wid, watch,
                   rpc, rnew, rold, rret, doneCalls, everLowered>>

\* ------------------------------------------------------------ Worker.Done
WorkerDone(c) ==
    /\ pc[c] = "active"
    /\ wp.lock = 0
    /\ wp' = WorkerDoneOp(wp, wid[c])
    /\ workers' = [workers EXCEPT ![wid[c]] = "Finished"]
    /\ pc' = [pc EXCEPT ![c] = "done"]
    /\ raised' = FALSE
    /\ UNCHANGED wid
    /\ UNCHANGED <<pvars, avars, metrics, rcap, overlap, ctxDone, watch,
                   rpc, rnew, rold, rret, doneCalls, everLowered>>

\* ----------------------------------------------------------------- Resize
\* Resize takes no lock: each read and write of the Waypoint is a step.
ResizeCall(r, n) ==
    /\ rpc[r] = "idle"
    /\ rpc' = [rpc EXCEPT ![r] = "check"]
    /\ rnew' = [rnew EXCEPT ![r] = n]
    /\ rcap' = [rcap EXCEPT ![r] = wp.capacity]
    /\ overlap' = [q \in Resizers |->
                     IF q = r THEN \E o \in Resizers \ {r} : rpc[o] /= "idle"
                     ELSE overlap[q] \/ rpc[q] /= "idle"]
    /\ raised' = FALSE
    /\ UNCHANGED <<pvars, avars, metrics, wp, workers, pc, wid, ctxDone, watch,
                   rold, rret, doneCalls, everLowered>>

\* if w == nil || newcap < 0 || w.closed { return -1 }
ResizeCheck(r) ==
    /\ rpc[r] = "check"
    /\ IF ResizeRejects(wp, rnew[r])
       THEN /\ rpc' = [rpc EXCEPT ![r] = "idle"]
            /\ rret' = [rret EXCEPT ![r] = -1]
            /\ rnew' = [rnew EXCEPT ![r] = 0]
            /\ rcap' = [rcap EXCEPT ![r] = 0]
            /\ overlap' = [overlap EXCEPT ![r] = FALSE]
       ELSE /\ rpc' = [rpc EXCEPT ![r] = "read"]
            /\ UNCHANGED <<rret, rnew, rcap, overlap>>
    /\ UNCHANGED <<pvars, avars, metrics, wp, workers, pc, wid, ctxDone, watch,
                   rold, doneCalls, everLowered, raised>>

\* oldcap := w.capacity
ResizeRead(r) ==
    /\ rpc[r] = "read"
    /\ rold' = [rold EXCEPT ![r] = wp.capacity]
    /\ rpc' = [rpc EXCEPT ![r] = "write"]
    /\ UNCHANGED <<pvars, avars, metrics, rcap, overlap, wp, workers, pc, wid, ctxDone, watch,
                   rnew, rret, doneCalls, everLowered, raised>>

\* w.capacity = newcap; without more capacity, return oldcap
ResizeWrite(r) ==
    /\ rpc[r] = "write"
    /\ wp' = ResizeStore(wp, rnew[r])
    /\ everLowered' = (everLowered \/ rnew[r] < wp.capacity)
    /\ IF rnew[r] > rold[r]
       THEN /\ rpc' = [rpc EXCEPT ![r] = "bcast"]
            /\ UNCHANGED <<rret, rnew, rold, rcap, overlap>>
       ELSE /\ rpc' = [rpc EXCEPT ![r] = "idle"]
            /\ rret' = [rret EXCEPT ![r] = ResizeReturn(rold[r], rnew[r])]
            /\ rnew' = [rnew EXCEPT ![r] = 0]
            /\ rold' = [rold EXCEPT ![r] = 0]
            /\ rcap' = [rcap EXCEPT ![r] = 0]
            /\ overlap' = [overlap EXCEPT ![r] = FALSE]
    /\ UNCHANGED <<pvars, avars, metrics, workers, pc, wid, ctxDone, watch,
                   doneCalls, raised>>

\* w.cond.Broadcast(); return oldcap
ResizeBroadcast(r) ==
    /\ rpc[r] = "bcast"
    /\ wp' = Broadcast(wp)
    /\ rpc' = [rpc EXCEPT ![r] = "idle"]
    /\ rret' = [rret EXCEPT ![r] = ResizeReturn(rold[r], rnew[r])]
    /\ rnew' = [rnew EXCEPT ![r] = 0]
    /\ rold' = [rold EXCEPT ![r] = 0]
    /\ rcap' = [rcap EXCEPT ![r] = 0]
    /\ overlap' = [overlap EXCEPT ![r] = FALSE]
    /\ raised' = TRUE
    /\ UNCHANGED <<pvars, avars, metrics, workers, pc, wid, ctxDone, watch,
                   doneCalls, everLowered>>

\* ---------------------------------------------------------- Waypoint.Done
WaypointDone ==
    /\ doneCalls < MaxDoneCalls
    /\ wp.lock = 0
    /\ wp' = DoneOp(wp)
    /\ doneCalls' = doneCalls + 1
    /\ UNCHANGED <<pvars, avars, metrics, rcap, overlap, workers, pc, wid, ctxDone, watch,
                   rpc, rnew, rold, rret, everLowered, raised>>

\* ---------------------------------------------------------------- Metrics
\* Metrics: RLock waits until no goroutine holds the lock.
MetricsCall ==
    /\ wp.lock = 0
    /\ metrics' = MetricsOf(wp)
    /\ UNCHANGED <<pvars, avars, wp, workers, pc, wid, ctxDone, watch,
                   rpc, rnew, rold, rret, rcap, overlap, doneCalls,
                   everLowered, raised>>

\* ------------------------------------------------------------------- Next
\* The steps a goroutine takes once it has been started or called.
WaitStep(c) == WaitEnter(c) \/ WaitCondWait(c) \/ WaitRecheck(c) \/ WaitStart(c)

WatcherStep(c) == WatcherSelectCtx(c) \/ WatcherSelectDone(c) \/ WatcherFire(c)

ResizeStep(r) == ResizeCheck(r) \/ ResizeRead(r) \/ ResizeWrite(r) \/ ResizeBroadcast(r)

Next ==
    \/ \E c \in Callers : CallWait(c)
    \/ \E c \in Callers : WaitEnter(c)
    \/ \E c \in Callers : WaitCondWait(c)
    \/ \E c \in Callers : WaitRecheck(c)
    \/ \E c \in Callers : WaitStart(c)
    \/ \E c \in Callers : WatcherSelectCtx(c)
    \/ \E c \in Callers : WatcherSelectDone(c)
    \/ \E c \in Callers : WatcherFire(c)
    \/ \E c \in Callers : Cancel(c)
    \/ \E c \in Callers : WorkerDone(c)
    \/ \E r \in Resizers, n \in -1..MaxCap : ResizeCall(r, n)
    \/ \E r \in Resizers : ResizeCheck(r)
    \/ \E r \in Resizers : ResizeRead(r)
    \/ \E r \in Resizers : ResizeWrite(r)
    \/ \E r \in Resizers : ResizeBroadcast(r)
    \/ WaypointDone

Spec == Init /\ [][Next]_vars

\* Every goroutine that can take a step of its own eventually takes it: the
\* Go scheduler runs every runnable goroutine.  Calls (Wait, Resize, Done,
\* Worker.Done, cancel) are the program's choice and are not forced.
Fairness ==
    /\ \A c \in Callers : WF_vars(WaitStep(c))
    /\ \A c \in Callers : WF_vars(WatcherStep(c))
    /\ \A r \in Resizers : WF_vars(ResizeStep(r))

FairSpec == Spec /\ Fairness

\* ----------------------------------------------- a Waypoint with Metrics
\* The callers of Wait, Worker.Done and Done, and a goroutine that calls
\* Metrics at any time; the capacity is the one given to New.
MetricsNext ==
    \/ \E c \in Callers : CallWait(c)
    \/ \E c \in Callers : WaitEnter(c)
    \/ \E c \in Callers : WaitCondWait(c)
    \/ \E c \in Callers : WaitRecheck(c)
    \/ \E c \in Callers : WaitStart(c)
    \/ \E c \in Callers : WatcherSelectCtx(c)
    \/ \E c \in Callers : WatcherSelectDone(c)
    \/ \E c \in Callers : WatcherFire(c)
    \/ \E c \in Callers : Cancel(c)
    \/ \E c \in Callers : WorkerDone(c)
    \/ WaypointDone
    \/ MetricsCall

MetricsSpec == Init /\ [][MetricsNext]_vars

\* ------------------------------------------------------------------- Run
\* Run calls run: Lock, started = true, the Group and its Context are made,
\* the goroutines of feedFunc, of every runner and of collectFunc are started.
RunCall ==
    /\ ~panicked
    /\ mpc = "new"
    /\ Len(stages) > 0
    /\ mpc' = "setup"
    /\ started' = TRUE
    /\ feed' = [feed EXCEPT !.pc = "send"]
    /\ stages' = [s \in DOMAIN stages |-> [stages[s] EXCEPT !.pc = "start"]]
    /\ coll' = [coll EXCEPT !.pc = "recv"]
    /\ UNCHANGED <<wvars, avars, callerDone, runCancel, groupErr, runErr, sub, closes,
                   collected, panicked, firstFail>>

\* run returns the Group: its deferred cancel() and Unlock() are executed.
RunReturn ==
    /\ ~panicked
    /\ mpc = "setup"
    /\ mpc' = "wait"
    /\ runCancel' = TRUE
    /\ UNCHANGED <<wvars, avars, started, callerDone, groupErr, runErr, feed, stages, sub,
                   closes, coll, collected, panicked, firstFail>>

\* eg.Wait() in Run: every function of the Group has returned.
RunWait ==
    /\ ~panicked
    /\ mpc = "wait"
    /\ feed.pc = "done"
    /\ coll.pc = "done"
    /\ \A s \in Stages : stages[s].pc = "done"
    /\ mpc' = "returned"
    /\ runErr' = groupErr
    /\ runCancel' = TRUE
    /\ UNCHANGED <<wvars, avars, started, callerDone, groupErr, feed, stages, sub,
                   closes, coll, collected, panicked, firstFail>>

\* The caller cancels the Context it gave to Run.
CallerCancel ==
    /\ ~panicked
    /\ mpc \in {"setup", "wait"}
    /\ ~callerDone
    /\ callerDone' = TRUE
    /\ UNCHANGED <<wvars, avars, mpc, started, runCancel, groupErr, runErr, feed, stages,
                   sub, closes, coll, collected, panicked, firstFail>>

\* ------------------------------------------------------------------ Feed
\* Recv returned an item to the runner of a stage, which calls Wait: the
\* watcher goroutine is started, the runner goes for the Waypoint's lock.
BeginWait(st, v) == [st EXCEPT !.pc = "lock", !.in = v, !.armed = TRUE]

\* Send in Feed meets Recv in the runner of stage 1.
FeedSend ==
    /\ ~panicked
    /\ feed.pc = "send"
    /\ closes[0] = 0
    /\ stages[1].pc = "recv"
    /\ feed' = [feed EXCEPT !.next = @ + 1,
                            !.pc = IF feed.next = MaxItems THEN "close" ELSE "send"]
    /\ stages' = [stages EXCEPT
                    ![1] = BeginWait(@, [orig |-> feed.next, val |-> feed.next])]
    /\ UNCHANGED <<wvars, avars, mpc, started, callerDone, runCancel, groupErr, runErr,
                   sub, closes, coll, collected, panicked, firstFail>>

\* Send in Feed takes ctx.Done(): Feed returns ctx.Err().
FeedCancel ==
    /\ ~panicked
    /\ feed.pc = "send"
    /\ RunCtxDone
    /\ feed' = [feed EXCEPT !.pc = "close", !.err = Canceled]
    /\ UNCHANGED <<wvars, avars, mpc, started, callerDone, runCancel, groupErr, runErr,
                   stages, sub, closes, coll, collected, panicked>>
    /\ firstFail' = FirstErr(firstFail, Canceled)

\* Feed returns: the defer close(ch) of the tests' Feed.
FeedOwnClose ==
    /\ ~panicked
    /\ feed.pc = "close"
    /\ feed.closer
    /\ closes[0] = 0
    /\ closes' = [closes EXCEPT ![0] = @ + 1]
    /\ UNCHANGED <<wvars, avars, mpc, started, callerDone, runCancel, groupErr, runErr,
                   feed, stages, sub, coll, collected, panicked, firstFail>>

\* feedFunc: defer close(ch), once Feed has returned; close of a closed
\* channel panics.
FeedClose ==
    /\ ~panicked
    /\ feed.pc = "close"
    /\ feed.closer => closes[0] > 0
    /\ closes' = [closes EXCEPT ![0] = @ + 1]
    /\ IF closes[0] > 0
       THEN panicked' = TRUE /\ UNCHANGED feed
       ELSE feed' = [feed EXCEPT !.pc = "report"] /\ UNCHANGED panicked
    /\ UNCHANGED <<wvars, avars, mpc, started, callerDone, runCancel, groupErr, runErr,
                   stages, sub, coll, collected, firstFail>>

\* feedFunc's error reaches run's Group.
FeedReport ==
    /\ ~panicked
    /\ feed.pc = "report"
    /\ groupErr' = FirstErr(groupErr, feed.err)
    /\ runCancel' = (runCancel \/ feed.err /= NoErr)
    /\ feed' = [feed EXCEPT !.pc = "done"]
    /\ UNCHANGED <<wvars, avars, mpc, started, callerDone, runErr, stages, sub, closes,
                   coll, collected, panicked, firstFail>>

\* ---------------------------------------------------------------- runner
\* s.waypt = waypoint.New(s.capacity); the runner's Group and Context.
StageStart(s) ==
    /\ ~panicked
    /\ stages[s].pc = "start"
    /\ stages' = [stages EXCEPT ![s].pc = "recv",
                                ![s].waypt = New(stages[s].capacity)]
    /\ UNCHANGED <<wvars, avars, mpc, started, callerDone, runCancel, groupErr, runErr,
                   feed, sub, closes, coll, collected, panicked, firstFail>>

\* Recv takes ctx.Done(): runloop returns ctx.Err(), and runner returns it.
StageRecvCancel(s) ==
    /\ ~panicked
    /\ stages[s].pc = "recv"
    /\ StageCtxDone(s)
    /\ stages' = [stages EXCEPT ![s].pc = "ret", ![s].ret = Canceled]
    /\ UNCHANGED <<wvars, avars, mpc, started, callerDone, runCancel, groupErr, runErr,
                   feed, sub, closes, coll, collected, panicked>>
    /\ firstFail' = FirstErr(firstFail, Canceled)

\* Recv finds the input channel closed: runloop returns errInputDone.
StageRecvClosed(s) ==
    /\ ~panicked
    /\ stages[s].pc = "recv"
    /\ closes[s - 1] > 0
    /\ stages' = [stages EXCEPT ![s].pc = "egwait"]
    /\ UNCHANGED <<wvars, avars, mpc, started, callerDone, runCancel, groupErr, runErr,
                   feed, sub, closes, coll, collected, panicked, firstFail>>

\* Wait: Lock; numWaiting++; a := _next(); the loop condition is evaluated.
StageWaitEnter(s) ==
    /\ ~panicked
    /\ stages[s].pc = "lock"
    /\ stages[s].waypt.lock = 0
    /\ LET w1 == Next_([stages[s].waypt EXCEPT !.lock = s, !.numWaiting = @ + 1])
       IN  stages' = [stages EXCEPT
                        ![s].waypt = w1,
                        ![s].wid = w1.idSeq,
                        ![s].pc = IF AtCapacity(w1) THEN "condwait" ELSE "admit"]
    /\ UNCHANGED <<wvars, avars, mpc, started, callerDone, runCancel, groupErr, runErr,
                   feed, sub, closes, coll, collected, panicked, firstFail>>

\* Wait: cond.Wait(), the runner parks.
StageWaitCondWait(s) ==
    /\ ~panicked
    /\ stages[s].pc = "condwait"
    /\ stages' = [stages EXCEPT ![s].waypt = CondWaitPark(@, s),
                                ![s].pc = "sleep"]
    /\ UNCHANGED <<wvars, avars, mpc, started, callerDone, runCancel, groupErr, runErr,
                   feed, sub, closes, coll, collected, panicked, firstFail>>

\* Wait returns, defer close(done): the watcher of this call, if it has not
\* selected yet, finds done closed.
WaitReturned(st) ==
    [st EXCEPT !.armed = FALSE, !.stale = IF st.armed THEN @ + 1 ELSE @]

\* Wait: cond.Wait() returns with the lock held; Wait returns ctx.Err(), and
\* runner returns it, or the loop condition is evaluated again.
StageWaitRecheck(s) ==
    /\ ~panicked
    /\ stages[s].pc = "sleep"
    /\ s \notin Range(stages[s].waypt.notify)
    /\ stages[s].waypt.lock = 0
    /\ stages' = [stages EXCEPT ![s] =
          IF StageCtxDone(s)
          THEN WaitReturned([@ EXCEPT !.waypt = WaitDeferred(@),
                                      !.pc = "ret", !.ret = Canceled])
          ELSE [@ EXCEPT !.waypt.lock = s,
                         !.pc = IF AtCapacity(stages[s].waypt)
                                THEN "condwait" ELSE "admit"]]
    /\ UNCHANGED <<wvars, avars, mpc, started, callerDone, runCancel, groupErr, runErr,
                   feed, sub, closes, coll, collected, panicked>>
    /\ firstFail' = IF StageCtxDone(s) THEN FirstErr(firstFail, Canceled) ELSE firstFail

\* Wait returns a._start(); eg.Go starts the goroutine of the item.
StageWaitStart(s) ==
    /\ ~panicked
    /\ stages[s].pc = "admit"
    /\ stages' = [stages EXCEPT ![s] =
          WaitReturned([@ EXCEPT !.waypt = WaitDeferred(Start_(@, stages[s].wid)),
                                 !.pc = "recv"])]
    /\ sub' = [sub EXCEPT ![s][stages[s].in.orig] =
                  [pc |-> "pfunc", orig |-> stages[s].in.orig,
                   val |-> stages[s].in.val, wid |-> stages[s].wid,
                   err |-> NoErr]]
    /\ UNCHANGED <<wvars, avars, mpc, started, callerDone, runCancel, groupErr, runErr,
                   feed, closes, coll, collected, panicked, firstFail>>

\* A watcher's select takes ctx.Done().
StageWatcherSelectCtx(s) ==
    /\ ~panicked
    /\ StageCtxDone(s)
    /\ \/ /\ stages[s].armed
          /\ stages' = [stages EXCEPT ![s].armed = FALSE, ![s].fire = @ + 1]
       \/ /\ stages[s].stale > 0
          /\ stages' = [stages EXCEPT ![s].stale = @ - 1, ![s].fire = @ + 1]
    /\ UNCHANGED <<wvars, avars, mpc, started, callerDone, runCancel, groupErr, runErr,
                   feed, sub, closes, coll, collected, panicked, firstFail>>

\* A watcher's select takes done, closed when its Wait returned.
StageWatcherSelectDone(s) ==
    /\ ~panicked
    /\ stages[s].stale > 0
    /\ stages' = [stages EXCEPT ![s].stale = @ - 1]
    /\ UNCHANGED <<wvars, avars, mpc, started, callerDone, runCancel, groupErr, runErr,
                   feed, sub, closes, coll, collected, panicked, firstFail>>

\* A watcher's w.cond.Broadcast().
StageWatcherFire(s) ==
    /\ ~panicked
    /\ stages[s].fire > 0
    /\ stages' = [stages EXCEPT ![s].fire = @ - 1,
                                ![s].waypt = Broadcast(@)]
    /\ UNCHANGED <<wvars, avars, mpc, started, callerDone, runCancel, groupErr, runErr,
                   feed, sub, closes, coll, collected, panicked, firstFail>>

\* return eg.Wait(): every goroutine of the runner's Group has returned.
StageEgWait(s) ==
    /\ ~panicked
    /\ stages[s].pc = "egwait"
    /\ \A i \in Items : sub[s][i].pc \in {"none", "done"}
    /\ stages' = [stages EXCEPT ![s].pc = "ret", ![s].ret = stages[s].egErr,
                                ![s].egCancel = TRUE]
    /\ UNCHANGED <<wvars, avars, mpc, started, callerDone, runCancel, groupErr, runErr,
                   feed, sub, closes, coll, collected, panicked, firstFail>>

\* runner returns: its deferred cancel() and close(outch) are executed.
StageReturn(s) ==
    /\ ~panicked
    /\ stages[s].pc = "ret"
    /\ stages' = [stages EXCEPT ![s].pc = "report", ![s].egCancel = TRUE]
    /\ closes' = [closes EXCEPT ![s] = @ + 1]
    /\ UNCHANGED <<wvars, avars, mpc, started, callerDone, runCancel, groupErr, runErr,
                   feed, sub, coll, collected, panicked, firstFail>>

\* runner's error reaches run's Group.
StageReport(s) ==
    /\ ~panicked
    /\ stages[s].pc = "report"
    /\ groupErr' = FirstErr(groupErr, stages[s].ret)
    /\ runCancel' = (runCancel \/ stages[s].ret /= NoErr)
    /\ stages' = [stages EXCEPT ![s].pc = "done"]
    /\ UNCHANGED <<wvars, avars, mpc, started, callerDone, runErr, feed, sub, closes,
                   coll, collected, panicked, firstFail>>

\* ------------------------------------------------- the goroutine of an item
\* s.pfunc(ctx, in) returns its output, or an error.
SubPfunc(s, i, ok) ==
    /\ ~panicked
    /\ sub[s][i].pc = "pfunc"
    /\ sub' = [sub EXCEPT ![s][i] =
                  IF ok
                  THEN [@ EXCEPT !.pc = "send", !.val = StageFunc(s, @)]
                  ELSE [@ EXCEPT !.pc = "wdone", !.err = ErrE]]
    /\ firstFail' = IF ok THEN firstFail ELSE FirstErr(firstFail, ErrE)
    /\ UNCHANGED <<wvars, avars, mpc, started, callerDone, runCancel, groupErr, runErr,
                   feed, stages, closes, coll, collected, panicked>>

\* Send meets Recv in the runner of the next stage, or in Collect, which
\* stores what it received.
SubSend(s, i) ==
    /\ ~panicked
    /\ sub[s][i].pc = "send"
    /\ closes[s] = 0
    /\ sub' = [sub EXCEPT ![s][i].pc = "wdone"]
    /\ LET v == [orig |-> sub[s][i].orig, val |-> sub[s][i].val]
       IN  IF s < MaxStages
           THEN /\ stages[s + 1].pc = "recv"
                /\ stages' = [stages EXCEPT ![s + 1] = BeginWait(@, v)]
                /\ UNCHANGED collected
           ELSE /\ coll.pc = "recv"
                /\ collected' = Append(collected, v)
                /\ UNCHANGED stages
    /\ UNCHANGED <<wvars, avars, mpc, started, callerDone, runCancel, groupErr, runErr,
                   feed, closes, coll, panicked, firstFail>>

\* Send takes ctx.Done() and returns ctx.Err().
SubSendCancel(s, i) ==
    /\ ~panicked
    /\ sub[s][i].pc = "send"
    /\ StageCtxDone(s)
    /\ sub' = [sub EXCEPT ![s][i].pc = "wdone", ![s][i].err = Canceled]
    /\ UNCHANGED <<wvars, avars, mpc, started, callerDone, runCancel, groupErr, runErr,
                   feed, stages, closes, coll, collected, panicked>>
    /\ firstFail' = FirstErr(firstFail, Canceled)

\* Send takes outch <- value on a channel the runner has closed: panic.
SubSendClosed(s, i) ==
    /\ ~panicked
    /\ sub[s][i].pc = "send"
    /\ closes[s] > 0
    /\ panicked' = TRUE
    /\ UNCHANGED <<wvars, avars, mpc, started, callerDone, runCancel, groupErr, runErr,
                   feed, stages, sub, closes, coll, collected, firstFail>>

\* defer w.Done()
SubWorkerDone(s, i) ==
    /\ ~panicked
    /\ sub[s][i].pc = "wdone"
    /\ stages[s].waypt.lock = 0
    /\ stages' = [stages EXCEPT ![s].waypt = WorkerDoneOp(@, sub[s][i].wid)]
    /\ sub' = [sub EXCEPT ![s][i].pc =
                  IF sub[s][i].err = NoErr THEN "done" ELSE "report"]
    /\ UNCHANGED <<wvars, avars, mpc, started, callerDone, runCancel, groupErr, runErr,
                   feed, closes, coll, collected, panicked, firstFail>>

\* The goroutine's error reaches the runner's Group.
SubReport(s, i) ==
    /\ ~panicked
    /\ sub[s][i].pc = "report"
    /\ stages' = [stages EXCEPT ![s].egErr = FirstErr(@, sub[s][i].err),
                                ![s].egCancel = TRUE]
    /\ sub' = [sub EXCEPT ![s][i].pc = "done"]
    /\ UNCHANGED <<wvars, avars, mpc, started, callerDone, runCancel, groupErr, runErr,
                   feed, closes, coll, collected, panicked, firstFail>>

\* --------------------------------------------------------------- Collect
\* Recv in Collect takes ctx.Done(): Collect returns ctx.Err().
CollectCancel ==
    /\ ~panicked
    /\ coll.pc = "recv"
    /\ RunCtxDone
    /\ coll' = [coll EXCEPT !.pc = "report", !.err = Canceled]
    /\ UNCHANGED <<wvars, avars, mpc, started, callerDone, runCancel, groupErr, runErr,
                   feed, stages, sub, closes, collected, panicked>>
    /\ firstFail' = FirstErr(firstFail, Canceled)

\* Recv in Collect finds the channel closed: Collect returns nil.
CollectClosed ==
    /\ ~panicked
    /\ coll.pc = "recv"
    /\ closes[MaxStages] > 0
    /\ coll' = [coll EXCEPT !.pc = "report"]
    /\ UNCHANGED <<wvars, avars, mpc, started, callerDone, runCancel, groupErr, runErr,
                   feed, stages, sub, closes, collected, panicked, firstFail>>

\* collectFunc's error reaches run's Group.
CollectReport ==
    /\ ~panicked
    /\ coll.pc = "report"
    /\ groupErr' = FirstErr(groupErr, coll.err)
    /\ runCancel' = (runCancel \/ coll.err /= NoErr)
    /\ coll' = [coll EXCEPT !.pc = "done"]
    /\ UNCHANGED <<wvars, avars, mpc, started, callerDone, runErr, feed, stages, sub,
                   closes, collected, panicked, firstFail>>

\* ------------------------------------------------- Add, Pipeline.Resize
ErrCorrupted == "pipeline state is corrupted"

ErrIsStarted == "pipeline is already started"

ErrNameConflict == "stage name conflict"

ErrNameUnknown == "stage name not found"

ErrNoStages == "no pipeline stages registered"

\* Add that does not look at p.started.
AddUnlatched(name, capacity) ==
    /\ ~panicked
    /\ mpc /= "setup"
    /\ IF name \in DOMAIN byname
       THEN /\ last' = [NoCall EXCEPT !.op = "Add", !.name = name,
                                      !.err = ErrNameConflict]
            /\ UNCHANGED <<stages, byname>>
       ELSE /\ stages' = Append(stages, NewStage(name, capacity))
            /\ byname' = [n \in DOMAIN byname \cup {name} |->
                            IF n = name THEN Len(stages) + 1 ELSE byname[n]]
            /\ last' = [NoCall EXCEPT !.op = "Add", !.name = name]
    /\ UNCHANGED <<wvars, mpc, started, callerDone, runCancel, groupErr, runErr,
                   feed, sub, closes, coll, collected, panicked, firstFail,
                   ch, chCtx, recv>>

\* Add that does not look the name up in p.byname.
AddUnchecked(name, capacity) ==
    /\ ~panicked
    /\ mpc /= "setup"
    /\ IF started
       THEN /\ last' = [NoCall EXCEPT !.op = "Add", !.name = name,
                                      !.err = ErrIsStarted]
            /\ UNCHANGED <<stages, byname>>
       ELSE /\ stages' = Append(stages, NewStage(name, capacity))
            /\ byname' = [n \in DOMAIN byname \cup {name} |->
                            IF n = name THEN Len(stages) + 1 ELSE byname[n]]
            /\ last' = [NoCall EXCEPT !.op = "Add", !.name = name]
    /\ UNCHANGED <<wvars, mpc, started, callerDone, runCancel, groupErr, runErr,
                   feed, sub, closes, coll, collected, panicked, firstFail,
                   ch, chCtx, recv>>

\* Add, between Lock and Unlock: the lock is free unless run holds it.  The
\* new stage goes to the end of p.stages, and p.byname gets its index (the
\* first index is 1 here, 0 in the code).
Add(name, capacity) ==
    /\ ~panicked
    /\ mpc /= "setup"
    /\ IF started
       THEN /\ last' = [NoCall EXCEPT !.op = "Add", !.name = name,
                                      !.err = ErrIsStarted]
            /\ UNCHANGED <<stages, byname>>
       ELSE IF name \in DOMAIN byname
       THEN /\ last' = [NoCall EXCEPT !.op = "Add", !.name = name,
                                      !.err = ErrNameConflict]
            /\ UNCHANGED <<stages, byname>>
       ELSE /\ stages' = Append(stages, NewStage(name, capacity))
            /\ byname' = [n \in DOMAIN byname \cup {name} |->
                            IF n = name THEN Len(stages) + 1 ELSE byname[n]]
            /\ last' = [NoCall EXCEPT !.op = "Add", !.name = name]
    /\ UNCHANGED <<wvars, mpc, started, callerDone, runCancel, groupErr, runErr,
                   feed, sub, closes, coll, collected, panicked, firstFail,
                   ch, chCtx, recv>>

\* p.stages[ndx].waypt.  run gives each runner a copy of its stage (for _, s
\* := range p.stages) and runner assigns the Waypoint it makes to that copy
\* (s.waypt = waypoint.New(s.capacity)): the field of p.stages[ndx] is never
\* assigned and stays nil.
StagesWaypt(ndx) == "nil"

\* Pipeline.Resize, between Lock and Unlock.  Waypoint.Resize returns -1 on
\* a nil receiver, and would reach the runner's Waypoint only through a
\* pointer to it.
PipelineResize(name, newcap) ==
    /\ ~panicked
    /\ mpc /= "setup"
    /\ LET call == [NoCall EXCEPT !.op = "Resize", !.name = name, !.arg = newcap]
       IN  IF name \notin DOMAIN byname
           THEN /\ last' = [call EXCEPT !.err = ErrNameUnknown]
                /\ UNCHANGED stages
           ELSE IF byname[name] < 1 \/ byname[name] > Len(stages)
           THEN /\ last' = [call EXCEPT !.err = ErrCorrupted]
                /\ UNCHANGED stages
           ELSE IF StagesWaypt(byname[name]) = "nil" \/ newcap < 0
           THEN /\ last' = [call EXCEPT !.ret = -1]
                /\ UNCHANGED stages
           ELSE /\ last' = [call EXCEPT !.ret = stages[byname[name]].waypt.capacity]
                /\ stages' = [stages EXCEPT ![byname[name]].waypt =
                                 Broadcast([@ EXCEPT !.capacity = newcap])]
    /\ UNCHANGED <<wvars, mpc, started, callerDone, runCancel, groupErr, runErr,
                   feed, sub, closes, coll, collected, panicked, firstFail,
                   byname, ch, chCtx, recv>>

\* Run on a Pipeline without stages: run unlocks p, returns ErrNoStages, and
\* its deferred p.Unlock() unlocks p again, a fatal error of the Go runtime
\* (unlock of unlocked mutex) that ends the process.
RunNoStages ==
    /\ ~panicked
    /\ mpc = "new"
    /\ Len(stages) = 0
    /\ mpc' = "dead"
    /\ panicked' = TRUE
    /\ UNCHANGED <<wvars, avars, started, callerDone, runCancel, groupErr,
                   runErr, feed, stages, sub, closes, coll, collected,
                   firstFail>>

\* --------------------------------------------------------- a Pipeline run
\* The steps of the goroutines of a run, and of Run itself; a panic ends the
\* process.
PStep ==
    \/ RunCall
    \/ RunReturn
    \/ RunWait
    \/ FeedSend
    \/ FeedCancel
    \/ FeedClose
    \/ FeedReport
    \/ \E s \in Stages : StageStart(s)
    \/ \E s \in Stages : StageRecvCancel(s)
    \/ \E s \in Stages : StageRecvClosed(s)
    \/ \E s \in Stages : StageWaitEnter(s)
    \/ \E s \in Stages : StageWaitCondWait(s)
    \/ \E s \in Stages : StageWaitRecheck(s)
    \/ \E s \in Stages : StageWaitStart(s)
    \/ \E s \in Stages : StageWatcherSelectCtx(s)
    \/ \E s \in Stages : StageWatcherSelectDone(s)
    \/ \E s \in Stages : StageWatcherFire(s)
    \/ \E s \in Stages : StageEgWait(s)
    \/ \E s \in Stages : StageReturn(s)
    \/ \E s \in Stages : StageReport(s)
    \/ \E s \in Stages, i \in Items, ok \in BOOLEAN : SubPfunc(s, i, ok)
    \/ \E s \in Stages, i \in Items : SubSend(s, i)
    \/ \E s \in Stages, i \in Items : SubSendCancel(s, i)
    \/ \E s \in Stages, i \in Items : SubSendClosed(s, i)
    \/ \E s \in Stages, i \in Items : SubWorkerDone(s, i)
    \/ \E s \in Stages, i \in Items : SubReport(s, i)
    \/ CollectCancel
    \/ CollectClosed
    \/ CollectReport

PNext == PStep \/ CallerCancel

\* A Waypoint nobody uses, beside the Pipeline.
WIdle == WInit /\ wp = New(0)

PipelineInit == WIdle /\ PInit

PipelineSpec == PipelineInit /\ [][PNext]_vars

\* Every goroutine of the run that can take a step eventually takes one; the
\* caller is not made to cancel.
FairPipelineSpec == PipelineSpec /\ WF_vars(PStep)

\* The run of the package's tests: New(tt), Add("stage1", ...), Run(ctx) with
\* the Feed that closes its channel.  The panic of feedFunc's close ends the
\* process before feedFunc can report and before Run can return.
TestRunInit ==
    /\ WIdle
    /\ \E caps \in [Stages -> Caps] :
          stages = [s \in Stages |-> NewStage(s, caps[s])]
    /\ mpc = "new"
    /\ started = FALSE
    /\ callerDone = FALSE
    /\ runCancel = FALSE
    /\ groupErr = NoErr
    /\ runErr = NoErr
    /\ feed = NewFeed(TRUE)
    /\ sub = [s \in Stages |-> [i \in Items |-> NoSub]]
    /\ closes = [k \in Chans |-> 0]
    /\ coll = [pc |-> "idle", err |-> NoErr]
    /\ collected = <<>>
    /\ panicked = FALSE
    /\ firstFail = NoErr
    /\ PNamed

TestRunNext ==
    \/ RunCall
    \/ RunReturn
    \/ FeedSend
    \/ FeedCancel
    \/ FeedOwnClose
    \/ FeedClose
    \/ \E s \in Stages : StageStart(s)
    \/ \E s \in Stages : StageRecvCancel(s)
    \/ \E s \in Stages : StageRecvClosed(s)
    \/ \E s \in Stages : StageWaitEnter(s)
    \/ \E s \in Stages : StageWaitCondWait(s)
    \/ \E s \in Stages : StageWaitRecheck(s)
    \/ \E s \in Stages : StageWaitStart(s)
    \/ \E s \in Stages : StageWatcherSelectCtx(s)
    \/ \E s \in Stages : StageWatcherSelectDone(s)
    \/ \E s \in Stages : StageWatcherFire(s)
    \/ \E s \in Stages : StageEgWait(s)
    \/ \E s \in Stages : StageReturn(s)
    \/ \E s \in Stages : StageReport(s)
    \/ \E s \in Stages, i \in Items, ok \in BOOLEAN : SubPfunc(s, i, ok)
    \/ \E s \in Stages, i \in Items : SubSend(s, i)
    \/ \E s \in Stages, i \in Items : SubSendCancel(s, i)
    \/ \E s \in Stages, i \in Items : SubSendClosed(s, i)
    \/ \E s \in Stages, i \in Items : SubWorkerDone(s, i)
    \/ \E s \in Stages, i \in Items : SubReport(s, i)
    \/ CollectCancel
    \/ CollectClosed
    \/ CollectReport
    \/ CallerCancel

TestRunSpec == TestRunInit /\ [][TestRunNext]_vars

\* A run with calls of Add and Pipeline.Resize made once Run has been
\* called, under names that are registered or not.
ApiNext ==
    \/ PNext
    \/ \E name \in Names : started /\ Add(name, MaxCap)
    \/ \E name \in DOMAIN byname, n \in Caps : started /\ PipelineResize(name, n)

ApiPipelineSpec == PipelineInit /\ [][ApiNext]_vars

\* A Pipeline from New on: Add and Pipeline.Resize calls, and Run up to the
\* start of the runners.
RegistryInit ==
    /\ WIdle
    /\ PRest
    /\ stages = <<>>
    /\ byname = <<>>
    /\ last = NoCall
    /\ RecvIdle

RegistryNext ==
    \/ \E name \in Names, c \in Caps : Add(name, c)
    \/ \E name \in Names, n \in -1..MaxCap : PipelineResize(name, n)
    \/ RunNoStages
    \/ RunCall
    \/ RunReturn
    \/ \E s \in DOMAIN stages : StageStart(s)

RegistrySpec == RegistryInit /\ [][RegistryNext]_vars

\* -------------------------------------------------------------------- Recv
\* A goroutine is in ch <- value.
ChanSend(v) ==
    /\ ~ch.closed
    /\ ch.val = NoVal
    /\ ch' = [ch EXCEPT !.val = v]
    /\ UNCHANGED <<wvars, pvars, byname, last, chCtx, recv>>

\* close(ch), with no sender waiting.
ChanClose ==
    /\ ~ch.closed
    /\ ch.val = NoVal
    /\ ch' = [ch EXCEPT !.closed = TRUE]
    /\ UNCHANGED <<wvars, pvars, byname, last, chCtx, recv>>

\* The Context given to Recv is canceled.
ChanCancel ==
    /\ ~chCtx
    /\ chCtx' = TRUE
    /\ UNCHANGED <<wvars, pvars, byname, last, ch, recv>>

\* Recv[T]: the select takes ctx.Done().
RecvCtxDone(T) ==
    /\ chCtx
    /\ recv' = [T |-> T, val |-> NoVal, out |-> Zero(T), ok |-> FALSE,
                err |-> Canceled]
    /\ UNCHANGED <<wvars, pvars, byname, last, ch, chCtx>>

\* Recv[T]: the select takes val, ok = <-ch, from a sender or from the closed
\* channel (nil, false).
RecvFromChan(T) ==
    /\ ch.closed \/ ch.val /= NoVal
    /\ LET val == IF ch.closed THEN Nil ELSE ch.val
           r == RecvReturn(T, val, ~ch.closed)
       IN  recv' = [T |-> T, val |-> val, out |-> r.out, ok |-> r.ok, err |-> r.err]
    /\ ch' = [ch EXCEPT !.val = NoVal]
    /\ UNCHANGED <<wvars, pvars, byname, last, chCtx>>

RecvNext ==
    \/ \E v \in Vals : ChanSend(v)
    \/ ChanClose
    \/ ChanCancel
    \/ \E T \in RecvTypes : RecvCtxDone(T)
    \/ \E T \in RecvTypes : RecvFromChan(T)

RecvSpec == Init /\ [][RecvNext]_vars

\* ----------------------------------------------------------------- claims
ActiveCount == Cardinality(wp.active)

\* A caller that is in Wait and has found the Waypoint at capacity: about to
\* park in cond.Wait, or parked.
Blocked(c) == pc[c] \in {"condwait", "sleep"}

InWait(c) == pc[c] \in {"lock", "condwait", "sleep", "start"}

\* C1, as claimed: in every reachable state the number of Active workers is
\* at most the current capacity.
C1_ActiveWithinCapacity == ActiveCount <= wp.capacity

\* C1, amended: as long as no Resize has lowered the capacity, the number of
\* Active workers is at most the current capacity.
C1_ActiveWithinCapacityUnlessLowered ==
    ~everLowered => ActiveCount <= wp.capacity

\* C1's case: a Resize raised the capacity, the Waypoint is full and a caller
\* is parked.
C1_Witness ==
    /\ ~everLowered
    /\ wp.capacity >= 1
    /\ ActiveCount = wp.capacity
    /\ \E r \in Resizers : rret[r] >= 0 /\ rret[r] < wp.capacity
    /\ \E c \in Callers : pc[c] = "sleep" /\ c \in Range(wp.notify)

\* C2: a caller in Wait whose Context is canceled eventually leaves Wait.
C2_CancelEndsWait ==
    \A c \in Callers : (ctxDone[c] /\ InWait(c)) ~> ~InWait(c)

\* C3: a state with free capacity and a blocked caller whose Context is not
\* canceled does not last: a blocked caller is admitted (or the capacity or
\* the Context changes).
FreeAndBlocked ==
    /\ ActiveCount < wp.capacity
    /\ \E c \in Callers : Blocked(c) /\ ~ctxDone[c]

C3_NoMissedWakeup == FreeAndBlocked ~> ~FreeAndBlocked

\* C4: after a Resize that raised the capacity, with no Worker.Done, Resize
\* or cancelation since, blocked callers are admitted until the Waypoint is
\* full or none is blocked.
RaisedAndBlocked == raised /\ FreeAndBlocked

C4_RaiseAdmitsBlocked == RaisedAndBlocked ~> ~RaisedAndBlocked

\* C5: a Worker is added to the active set only while the active count is
\* below the capacity, and is Active and in the active set when Wait returns.
C5_AdmittedBelowCapacity ==
    [][\A c \in Callers :
          (pc[c] = "start" /\ pc'[c] = "active") =>
              /\ ActiveCount < wp.capacity
              /\ workers'[wid[c]] = "Active"
              /\ wid[c] \in wp'.active]_vars

\* C6: the done channel is closed only if Waypoint.Done has been called and
\* no Worker is Active.
C6_ClosedOnlyWhenIdle ==
    wp.doneCloses > 0 => (wp.closed /\ wp.active = {})

\* C7: close(w.done) is executed at most once, and a closed done channel
\* stays closed.
C7_ClosedOnce ==
    [][wp'.doneCloses <= 1 /\ (wp.doneCloses = 1 => wp'.doneCloses = 1)]_vars

\* C7's case: Waypoint.Done was called twice and the last Active Worker
\* finished on the closed Waypoint.
C7_Witness ==
    /\ doneCalls >= 2
    /\ wp.doneCloses = 1
    /\ wp.numFinished >= 1
    /\ wp.active = {}

\* ------------------------------------------------------ claims: Pipeline
\* Some StageFunc call of the run returned an error.
PfFailed == \E s \in Stages, i \in Items : sub[s][i].err = ErrE

\* Every goroutine started for the run has returned.
AllTasksDone ==
    /\ feed.pc = "done"
    /\ coll.pc = "done"
    /\ \A s \in Stages : stages[s].pc = "done"
    /\ \A s \in Stages, i \in Items : sub[s][i].pc \in {"none", "done"}

\* Collect has received, for every item Feed sent, the StageFuncs applied to
\* it in the order of registration, and nothing else.
CollectedAll ==
    /\ Len(collected) = MaxItems
    /\ \A i \in Items : \E k \in DOMAIN collected :
          collected[k] = [orig |-> i, val |-> Through(MaxStages, i)]

\* C8: when Run has returned, the caller's Context was never canceled, no
\* StageFunc call returned an error and every stage has a capacity of at
\* least 1, Run returned nil and Collect has received one result per item.
C8_RunSucceeds ==
    (/\ mpc = "returned"
     /\ ~callerDone
     /\ ~PfFailed
     /\ \A s \in Stages : stages[s].capacity >= 1)
        => (runErr = NoErr /\ CollectedAll)

\* C9: once the Context given to Run is canceled, Run eventually returns and
\* every goroutine of the run has returned (or the process has panicked).
C9_CancelEndsRun ==
    callerDone ~> (panicked \/ (mpc = "returned" /\ AllTasksDone))

\* C10: when Run has returned, the caller's Context was never canceled and
\* the first error a goroutine of the run came to return was the error E of
\* a StageFunc, Run returned E.
C10_FirstErrorReturned ==
    (mpc = "returned" /\ ~callerDone /\ firstFail = ErrE) => runErr = ErrE

\* ----------------------------------------------------- claims: stage.runner
\* A goroutine a runner started with eg.Go has not returned yet.
SubRunning(s, i) == sub[s][i].pc \notin {"none", "done"}

\* C11: the output channel of a stage is closed only when every goroutine its
\* runner started has returned, and no such goroutine sends on it closed.
C11_CloseAfterSubTasks ==
    /\ ~panicked
    /\ \A s \in Stages : closes[s] > 0 => \A i \in Items : ~SubRunning(s, i)

\* ------------------------------------------- claims: Add, Pipeline.Resize
\* The runner of stage s has made its Waypoint.
HasWaypoint(s) == stages[s].pc \notin {"idle", "start"}

\* C12: a Pipeline.Resize(name, n) made while Run is in progress and the
\* runner of the stage of that name has made its Waypoint returns that
\* Waypoint's capacity without error and sets it to n.
C12_ResizeReachesWaypoint ==
    [][\A name \in DOMAIN byname :
          (/\ mpc = "wait"
           /\ HasWaypoint(byname[name])
           /\ last' /= last
           /\ last'.op = "Resize"
           /\ last'.name = name)
              => /\ last'.err = NoErr
                 /\ last'.ret = stages[byname[name]].waypt.capacity
                 /\ stages'[byname[name]].waypt.capacity = last'.arg]_vars

\* C13: Run on a Pipeline without stages returns ErrNoStages, and nothing is
\* started.
C13_NoStagesError ==
    [][(mpc = "new" /\ mpc' /= "new" /\ Len(stages) = 0)
          => /\ mpc' = "returned"
             /\ runErr' = ErrNoStages
             /\ ~panicked'
             /\ UNCHANGED <<started, feed, coll, sub, closes>>]_vars

\* What Add registered: the names and capacities of p.stages, in order.
Registered == [s \in DOMAIN stages |-> <<stages[s].name, stages[s].capacity>>]

\* C14: started is never reset, and once it is set every Add returns
\* ErrIsStarted and p.stages and p.byname stay as they are.
C14_StartedLatch ==
    [][started =>
          /\ started'
          /\ Registered' = Registered
          /\ byname' = byname
          /\ (last' /= last /\ last'.op = "Add") => last'.err = ErrIsStarted]_vars

\* C14's case: Add was called after Run returned, and was rejected.
C14_Witness ==
    /\ mpc = "returned"
    /\ started
    /\ last.op = "Add"
    /\ last.err = ErrIsStarted
    /\ Len(stages) = MaxStages

\* The names of p.stages are pairwise distinct, and p.byname maps exactly
\* these names, each to the index of the stage that carries it.
RegistryConsistent ==
    /\ \A i, j \in DOMAIN stages : i /= j => stages[i].name /= stages[j].name
    /\ DOMAIN byname = {stages[s].name : s \in DOMAIN stages}
    /\ \A n \in DOMAIN byname :
          byname[n] \in DOMAIN stages /\ stages[byname[n]].name = n

\* C15: after every call the registry is consistent and Pipeline.Resize has
\* not returned ErrCorrupted; a stage that is registered keeps its place; an
\* Add that returns ErrNameConflict was given a registered name and changes
\* neither p.stages nor p.byname.
C15_RegistryKept ==
    [][/\ RegistryConsistent'
       /\ last'.err /= ErrCorrupted
       /\ \A s \in DOMAIN stages :
             s \in DOMAIN stages' /\ Registered'[s] = Registered[s]
       /\ (last' /= last /\ last'.op = "Add" /\ last'.err = ErrNameConflict)
             => /\ last'.name \in DOMAIN byname
                /\ Registered' = Registered
                /\ byname' = byname]_vars

\* C15's case: two stages are registered, the second one found through
\* p.byname, and an Add with a registered name was rejected.
C15_Witness ==
    /\ Len(stages) = 2
    /\ byname[stages[2].name] = 2
    /\ last.op = "Add"
    /\ last.err = ErrNameConflict

\* ------------------------------------------------ claims: Waypoint, again
\* C16: the ID a Wait call gives its Worker is greater than every ID given
\* before, and no two Workers have the same ID.
C16_IdsIncrease ==
    [][\A c \in Callers :
          wid'[c] /= wid[c] =>
              /\ \A d \in Callers : wid'[c] > wid[d]
              /\ \A d \in Callers \ {c} : wid'[c] /= wid'[d]]_vars

\* C16's case: the Wait that made Worker 1 returned ctx.Err(), and a later
\* Wait made Worker 2.
C16_Witness ==
    \E c, d \in Callers :
        /\ pc[c] = "failed"
        /\ wid[c] = 1
        /\ wid[d] = 2

\* C17: a step of Resize leaves the active set and the state of every Worker
\* unchanged, and a Worker leaves the active set only in the step of its own
\* Done call, which makes it Finished.
C17_ResizeKeepsActive ==
    [][/\ \A r \in Resizers :
             rpc'[r] /= rpc[r] => wp'.active = wp.active /\ workers' = workers
       /\ \A id \in wp.active \ wp'.active :
             \E c \in Callers : /\ wid[c] = id
                                /\ pc[c] = "active" /\ pc'[c] = "done"
                                /\ workers'[id] = "Finished"]_vars

\* Resize has lowered the capacity below the number of Active workers, and
\* they are all still in the active set and Active.
C17_Witness ==
    /\ everLowered
    /\ \A r \in Resizers : rpc[r] = "idle"
    /\ ActiveCount > wp.capacity
    /\ \A id \in wp.active : workers[id] = "Active"

\* C18: a Resize call that is accepted, and that no other Resize call
\* overlaps, returns the capacity in effect when it was called and leaves its
\* newcap as the capacity.
C18_ResizeReturnsPrevious ==
    [][\A r \in Resizers :
          (rpc[r] \in {"write", "bcast"} /\ rpc'[r] = "idle" /\ ~overlap[r])
              => rret'[r] = rcap[r] /\ wp'.capacity = rnew[r]]_vars

\* A Resize that lowered the capacity to 0 was followed by a Resize to MaxCap
\* that returned 0.
C18_Witness ==
    /\ everLowered /\ raised
    /\ \E r \in Resizers : rpc[r] = "idle" /\ rret[r] = 0
    /\ wp.capacity = MaxCap

\* C19: a Resize call that finds the Waypoint closed, or has a negative
\* newcap, returns -1; the step that returns -1 changes nothing of the
\* Waypoint (capacity, notify list), and an accepted call returns a value
\* that is not -1.
C19_ResizeRejected ==
    [][\A r \in Resizers :
          /\ (rpc[r] = "check" /\ rpc'[r] /= "check" /\ (wp.closed \/ rnew[r] < 0))
                => rpc'[r] = "idle" /\ rret'[r] = -1
          /\ (rpc[r] /= "idle" /\ rpc'[r] = "idle" /\ rret'[r] = -1)
                => wp' = wp /\ pc' = pc
          /\ (rpc[r] \in {"write", "bcast"} /\ rpc'[r] = "idle")
                => rret'[r] >= 0]_vars

\* Done has been called, a Resize has returned -1 and a Wait caller is still
\* parked in cond.Wait.
C19_Witness ==
    /\ doneCalls > 0 /\ wp.closed
    /\ \E r \in Resizers : rpc[r] = "idle" /\ rret[r] = -1
    /\ \E c \in Callers : pc[c] = "sleep" /\ wp.notify /= <<>>

\* C20, a consequence of it: Resize reads and writes the Waypoint only while
\* no other goroutine holds the Waypoint's lock.
C20_ResizeUnderLock ==
    [][\A r \in Resizers :
          (rpc[r] \in {"check", "read", "write", "bcast"} /\ rpc'[r] /= rpc[r])
              => wp.lock = 0]_vars

\* C21: a Wait that is called when Done has returned (the Waypoint is closed)
\* never makes its Worker Active.
C21_ClosedAdmitsNobody ==
    \A c \in Callers : [](pc[c] = "idle" /\ wp.closed => [](pc[c] /= "active"))

\* The items of stage s whose goroutine has been admitted by Wait and has not
\* called w.Done() yet: in s.pfunc, in Send, or about to call w.Done().
InFlight(s) == {i \in Items : sub[s][i].pc \in {"pfunc", "send", "wdone"}}

\* C22: the goroutines of a stage that hold a Worker are at most as many as
\* the stage's capacity, and those in s.pfunc at most one with capacity 1.
C22_SubTasksWithinCapacity ==
    \A s \in Stages :
        /\ Cardinality(InFlight(s)) <= stages[s].capacity
        /\ stages[s].capacity = 1
              => Cardinality({i \in Items : sub[s][i].pc = "pfunc"}) <= 1

\* A stage of capacity 1 has an item in s.pfunc while its runner, holding the
\* next item, is parked in Wait.
C22_Witness ==
    \E s \in Stages :
        /\ stages[s].capacity = 1
        /\ \E i \in Items : sub[s][i].pc = "pfunc"
        /\ stages[s].pc = "sleep"

\* The Workers the Waypoint of stage s has admitted: one for each goroutine
\* the runner started.
Admitted(s) == {i \in Items : sub[s][i].pc /= "none"}

\* C23: when no goroutine of a stage holds a Worker (each has called w.Done()
\* or none was started) and no admission is in progress, the stage's Waypoint
\* has no Active worker and has counted one finished Worker for each Worker
\* it admitted.
C23_WorkersReleased ==
    \A s \in Stages :
        (stages[s].pc \notin {"idle", "start", "admit"} /\ InFlight(s) = {})
            => /\ stages[s].waypt.active = {}
               /\ stages[s].waypt.numFinished = Cardinality(Admitted(s))

\* Every item was admitted and released: one after s.pfunc failed, one after
\* its Send was canceled.
C23_Witness ==
    \E s \in Stages :
        /\ \A i \in Items : sub[s][i].pc = "done"
        /\ \E i \in Items : sub[s][i].err = ErrE
        /\ \E i \in Items : sub[s][i].err = Canceled
        /\ stages[s].waypt.numFinished = MaxItems

\* C24: a Resize of a registered name before Run returns a non-nil error.
C24_ResizeBeforeRunFails ==
    [][(~started /\ last' /= last /\ last'.op = "Resize"
            /\ last'.name \in DOMAIN byname)
          => last'.err /= NoErr /\ Registered' = Registered]_vars

\* The Wait calls that have taken the lock and have not returned.
WaitingCalls == {c \in Callers : pc[c] \in {"condwait", "sleep", "start"}}

\* The Wait calls that returned ctx.Err().
CanceledCalls == {c \in Callers : pc[c] = "failed"}

\* C25: in the snapshot a Metrics call returns, Waiting is the number of Wait
\* calls in progress (not negative), Active and Finished are the numbers of
\* Active and Finished Workers, and Waiting + Active + Finished + the Wait
\* calls that returned ctx.Err() is the number of ids issued.
C25_MetricsAtomic ==
    [][metrics' /= metrics =>
          /\ metrics'.Waiting = Cardinality(WaitingCalls)
          /\ metrics'.Waiting >= 0
          /\ metrics'.Active = Cardinality({i \in Ids : workers[i] = "Active"})
          /\ metrics'.Finished = Cardinality({i \in Ids : workers[i] = "Finished"})
          /\ wp.idSeq = metrics'.Waiting + metrics'.Active + metrics'.Finished
                          + Cardinality(CanceledCalls)]_vars

\* A snapshot taken with one Wait call parked, one Worker Finished and none
\* Active.
C25_Witness ==
    /\ metrics.Waiting = 1 /\ metrics.Finished = 1 /\ metrics.Active = 0
    /\ \E c \in Callers : pc[c] = "sleep"
    /\ \E c \in Callers : pc[c] = "done"

\* C26: every channel of a run is closed at most once; Feed's channel is
\* closed by feedFunc when Feed has returned, and is closed from then on; the
\* output channel of a stage is closed by its runner when it returns.
C26_ClosedOnceByOwner ==
    [][/\ \A k \in Chans : closes'[k] <= 1
       /\ closes'[0] /= closes[0] => feed.pc = "close" /\ feed'.pc = "report"
       /\ feed'.pc \in {"report", "done"} => closes'[0] = 1
       /\ \A s \in Stages :
             closes'[s] /= closes[s] => stages[s].pc = "ret" /\ stages'[s].pc = "report"]_vars

\* C27: the steps of a Wait call that does not admit its Worker leave the
\* active set, the capacity, the finished count and the closed flag as they
\* are; the call adds one to the waiting count when it has the lock and, when
\* it returns ctx.Err(), takes that one away again, with its Worker neither in
\* the active set nor Active.
C27_CanceledWaitLeavesNoTrace ==
    [][\A c \in Callers :
          /\ (pc'[c] /= pc[c] /\ pc[c] \in {"lock", "condwait", "sleep"}
                 /\ pc'[c] /= "active")
                => /\ wp'.active = wp.active
                   /\ wp'.capacity = wp.capacity
                   /\ wp'.numFinished = wp.numFinished
                   /\ wp'.closed = wp.closed
          /\ (pc[c] = "lock" /\ pc'[c] /= "lock")
                => wp'.numWaiting = wp.numWaiting + 1 /\ wp'.idSeq = wp.idSeq + 1
          /\ (pc[c] /= "failed" /\ pc'[c] = "failed")
                => /\ wp'.numWaiting = wp.numWaiting - 1
                   /\ wp'.idSeq = wp.idSeq
                   /\ wid[c] \notin wp'.active
                   /\ workers'[wid[c]] = "Waiting"]_vars

\* A Wait call has returned ctx.Err() while another caller's Worker is
\* Active; nobody is counted as waiting and two ids have been issued.
C27_Witness ==
    /\ \E c \in Callers : pc[c] = "failed" /\ wid[c] \notin wp.active
    /\ \E d \in Callers : pc[d] = "active"
    /\ wp.numWaiting = 0
    /\ wp.idSeq = 2

\* C28: a Wait called with a Context that is already canceled never makes its
\* Worker Active.
C28_CanceledWaitNotAdmitted ==
    \A c \in Callers : [](pc[c] = "idle" /\ ctxDone[c] => [](pc[c] /= "active"))

\* C29: when Run has returned, Feed, Collect, every runner and every
\* goroutine a runner started for an item have returned.
C29_RunReturnsAfterAllTasks ==
    mpc = "returned" =>
        /\ feed.pc = "done"
        /\ coll.pc = "done"
        /\ \A s \in Stages : stages[s].pc = "done"
        /\ \A s \in Stages, i \in Items : sub[s][i].pc \in {"none", "done"}

\* C30: a stage of capacity 1 admits an item only when the goroutine of every
\* item it admitted before has sent its result and called w.Done(); when
\* every stage has capacity 1, Collect receives the results in the order in
\* which Feed sent the items.
C30_CapacityOneKeepsOrder ==
    [][/\ \A s \in Stages : stages[s].capacity = 1 =>
             \A i \in Items :
                 (sub[s][i].pc = "none" /\ sub'[s][i].pc /= "none")
                     => \A j \in Items \ {i} : sub[s][j].pc \in {"none", "report", "done"}
       /\ (\A s \in Stages : stages[s].capacity = 1) =>
             \A m, n \in DOMAIN collected' :
                 m < n => collected'[m].orig < collected'[n].orig]_vars

\* Every stage has capacity 1 and Collect has received the results of all
\* the items.
C30_Witness ==
    /\ \A s \in Stages : stages[s].capacity = 1
    /\ Len(collected) = MaxItems
    /\ \A n \in DOMAIN collected : collected[n].orig = n

\* The items stage s holds: the one its runner has read and not yet had
\* admitted by Wait, and those whose goroutine is in s.pfunc or in Send.
Held(s) ==
    {i \in Items :
        \/ /\ stages[s].pc \in {"lock", "condwait", "sleep", "admit"}
           /\ stages[s].in.orig = i
        \/ sub[s][i].pc \in {"pfunc", "send"}}

\* The items an error has taken out of the run: s.pfunc failed on them, their
\* Send was canceled, or the runner returned while it held them.
Dropped ==
    {i \in Items : \E s \in Stages :
        \/ sub[s][i].err /= NoErr
        \/ /\ stages[s].pc \in {"ret", "report", "done"}
           /\ stages[s].in.orig = i
           /\ sub[s][i].pc = "none"}

\* The items Feed has handed off that Collect has not received and no error
\* has dropped.
Pending ==
    {i \in Items : /\ i < feed.next
                   /\ \A n \in DOMAIN collected : collected[n].orig /= i
                   /\ i \notin Dropped}

RECURSIVE CapacityPlusOne(_)
CapacityPlusOne(s) ==
    IF s = 0 THEN 0 ELSE stages[s].capacity + 1 + CapacityPlusOne(s - 1)

C32_RecvResults ==
    [][recv' /= recv =>
          /\ (~recv'.ok /\ recv'.err = NoErr) => ch.closed
          /\ (ch.closed /\ recv'.err = NoErr)
                => ~recv'.ok /\ recv'.out = Zero(recv'.T)
          /\ (recv'.err = NoErr /\ ~ch.closed)
                => /\ recv'.val = ch.val
                   /\ ch'.val = NoVal
                   /\ recv'.ok
                   /\ recv'.out = IF Converts(ch.val, recv'.T)
                                  THEN ch.val ELSE Zero(recv'.T)
          /\ \A T \in RecvTypes, v \in Vals :
                ~Converts(v, T) => RecvReturn(T, v, TRUE) = RecvReturn(T, Zero(T), TRUE)]_vars

\* Recv[T] has taken a value of another type that is not a zero value, and
\* returned the zero value of T with ok = true and a nil error.
C32_Witness ==
    /\ recv.T \in Types
    /\ recv.val \in Vals /\ recv.val.type \in Types \ {recv.T} /\ recv.val.v /= 0
    /\ recv.ok /\ recv.err = NoErr
    /\ recv.out = Zero(recv.T)
    /\ ch.val = NoVal

\* C33: every call of Add, Resize and Run releases the Pipeline's mutex once:
\* no call that returns an error, and no call of Run, ends in the fatal error
\* of unlocking a mutex that is not locked, so that a later call can proceed.
C33_UnlockedOnce ==
    [][(\/ (last' /= last /\ last'.err /= NoErr)
        \/ (mpc = "new" /\ mpc' /= "new"))
          => ~panicked' /\ mpc' /= "dead"]_vars

====
